---- MODULE Spec2Model ----
(***************************************************************************)
(* Model of src/anomaly_algorithm.py: context classification of a          *)
(* timestamp, per-bucket percentile baselines, threshold detection, the    *)
(* spatial corroboration filter and the latest-timestamp orchestrator.     *)
(*                                                                         *)
(* A DataFrame is a sequence of rows; a row is a record whose fields are   *)
(* the frame's columns; the frame's index is the position of the row.      *)
(* A percentile (a float on the 0-1 scale in the code) is carried as an    *)
(* integer number of hundredths, and every threshold as an integer number  *)
(* of hundredths of a metric unit, so that the linear interpolation of     *)
(* the quantile is exact.                                                  *)
(***************************************************************************)
EXTENDS Integers, Sequences, FiniteSets, TLC

VARIABLES
    pc,                \* the line the call has reached
    mode,              \* the function called: "filter", "detect" or "run"
    df_hist,           \* the rows of the historical frame
    hist_columns,      \* the columns the historical frame has
    df_current,        \* the rows of the frame to classify
    current_columns,   \* the columns that frame has
    metrics,           \* the list of metric names
    percentile,        \* in hundredths: 99 is the code's 0.99
    min_metrics,
    stats,             \* the profile: bucket -> metric -> threshold, hundredths
    df_in,             \* the frame given to the spatial filter
    df,                \* the frame being built
    rsu_locations,     \* dict rsu_id -> <<latitude, longitude>>
    radius_meters,
    count_neighbours,
    todo,              \* the (datetime, rsu_id) iterations still to run
    df_full,           \* the batch given to the orchestrator
    result,            \* the frame the orchestrator returns
    error,             \* the exception raised, or "none"
    classified         \* the rows whose bucket columns have been computed

vars == <<pc, mode, df_hist, hist_columns, df_current, current_columns, metrics,
          percentile, min_metrics, stats, df_in, df, rsu_locations,
          radius_meters, count_neighbours, todo, df_full, result, error,
          classified>>

inputVars == <<df_hist, hist_columns, current_columns, metrics, percentile,
               min_metrics, radius_meters, count_neighbours, df_full, mode>>

(***************************************************************************)
(* Bounds of the model.                                                    *)
(***************************************************************************)
MaxRows == 3

\* The rsu_id values of the model.
Rsus == {1, 2, 3}

(***************************************************************************)
(* Timestamps.  pandas Timestamps are [year, month, day, hour] records.    *)
(***************************************************************************)
Ts(y, m, d, h) == [year |-> y, month |-> m, day |-> d, hour |-> h]

\* Total order of timestamps (used by max() and by groupby's sorted keys).
TsKey(ts) == ((ts.year * 13 + ts.month) * 32 + ts.day) * 24 + ts.hour

\* ts.weekday(): Monday = 0 .. Sunday = 6, from the proleptic Gregorian
\* day number of the date (1970-01-01, day 0, is a Thursday).
DaysFromCivil(y, m, d) ==
    LET yy  == IF m <= 2 THEN y - 1 ELSE y
        era == yy \div 400
        yoe == yy - era * 400
        mp  == IF m > 2 THEN m - 3 ELSE m + 9
        doy == (153 * mp + 2) \div 5 + d - 1
        doe == yoe * 365 + yoe \div 4 - yoe \div 100 + doy
    IN  era * 146097 + doe - 719468

Weekday(ts) == (DaysFromCivil(ts.year, ts.month, ts.day) + 3) % 7

get_russian_holiday(ts) ==
    IF ts.month = 1 /\ ts.day \in 1..8 THEN "new_year"
    ELSE IF ts.month = 4 /\ ts.day \in 12..19 THEN "easter"
    ELSE IF ts.month = 6 /\ ts.day = 12 THEN "russia_day"
    ELSE IF ts.month = 7 /\ ts.day = 1 THEN "study_day"
    ELSE "none"

get_season(ts) ==
    IF ts.month \in {12, 1, 2} THEN "winter"
    ELSE IF ts.month \in {3, 4, 5} THEN "spring"
    ELSE IF ts.month \in {6, 7, 8} THEN "summer"
    ELSE "autumn"

\* The four columns hour, weekday, holiday, season added to a frame.
Bucket(ts) == <<ts.hour, Weekday(ts), get_russian_holiday(ts), get_season(ts)>>

(***************************************************************************)
(* Frame helpers.                                                          *)
(***************************************************************************)
WithColumn(r, name, v) ==
    [f \in DOMAIN r \cup {name} |-> IF f = name THEN v ELSE r[f]]

RECURSIVE Unique(_)
\* Series.unique(): the distinct values in order of first appearance.
Unique(s) ==
    IF s = <<>> THEN <<>>
    ELSE LET n    == Len(s)
             init == Unique(SubSeq(s, 1, n - 1))
         IN  IF \E i \in 1..(n - 1) : s[i] = s[n] THEN init
             ELSE Append(init, s[n])

RECURSIVE SortedTimes(_)
\* The keys of a groupby('datetime'), ascending.
SortedTimes(S) ==
    IF S = {} THEN <<>>
    ELSE LET lo == CHOOSE t \in S : \A u \in S : TsKey(t) <= TsKey(u)
         IN  <<lo>> \o SortedTimes(S \ {lo})

(***************************************************************************)
(* geodesic(a, b).meters.  Coordinates are <<latitude, longitude>> in      *)
(* thousandths of a degree close to the equator, where one thousandth of   *)
(* a degree is 111 m along either axis; distances are compared by their    *)
(* squares.                                                                *)
(***************************************************************************)
MetresPerMilliDegree == 111

GeodesicSq(a, b) ==
    LET dlat == (a[1] - b[1]) * MetresPerMilliDegree
        dlon == (a[2] - b[2]) * MetresPerMilliDegree
    IN  dlat * dlat + dlon * dlon

WithinMetresMutant(a, b, radius) == GeodesicSq(a, b) < radius * radius

\* distance <= radius_meters
WithinMetres(a, b, radius) == GeodesicSq(a, b) <= radius * radius

(***************************************************************************)
(* filter_spatial_anomalies                                                *)
(***************************************************************************)
GroupRsuIdsMutant(frame, dt) ==
    LET rows == SelectSeq(frame, LAMBDA r : r.anomaly_filtered /\ r.datetime = dt)
    IN  Unique([i \in 1..Len(rows) |-> rows[i].rsu_id])

\* group['rsu_id'].unique() of the group dt of df[df['anomaly']].groupby('datetime')
GroupRsuIds(frame, dt) ==
    LET rows == SelectSeq(frame, LAMBDA r : r.anomaly /\ r.datetime = dt)
    IN  Unique([i \in 1..Len(rows) |-> rows[i].rsu_id])

\* The keys of the groups: the timestamps that have a flagged row.
GroupTimes(frame) ==
    {frame[i].datetime : i \in {j \in 1..Len(frame) : frame[j].anomaly}}

RECURSIVE ScanOthersMutant(_, _, _, _, _, _, _)
ScanOthersMutant(rsu_id, rsu_ids, k, neighbors, locs, radius, count) ==
    IF k > Len(rsu_ids) THEN FALSE
    ELSE LET other_id == rsu_ids[k] IN
         IF other_id = rsu_id
         THEN ScanOthersMutant(rsu_id, rsu_ids, k + 1, neighbors, locs, radius, count)
         ELSE LET n == IF \/ other_id \notin DOMAIN locs
                          \/ WithinMetres(locs[rsu_id], locs[other_id], radius)
                       THEN neighbors + 1 ELSE neighbors
              IN  IF n >= count THEN TRUE
                  ELSE ScanOthersMutant(rsu_id, rsu_ids, k + 1, n, locs, radius, count)

RECURSIVE ScanOthers(_, _, _, _, _, _, _)
\* The inner loop over other_id from position k on, with `neighbors` counted
\* so far: TRUE when the loop reaches the suppression (and breaks).
ScanOthers(rsu_id, rsu_ids, k, neighbors, locs, radius, count) ==
    IF k > Len(rsu_ids) THEN FALSE
    ELSE LET other_id == rsu_ids[k] IN
         IF other_id = rsu_id \/ other_id \notin DOMAIN locs
         THEN ScanOthers(rsu_id, rsu_ids, k + 1, neighbors, locs, radius, count)
         ELSE LET n == IF WithinMetres(locs[rsu_id], locs[other_id], radius)
                       THEN neighbors + 1 ELSE neighbors
              IN  IF n >= count THEN TRUE
                  ELSE ScanOthers(rsu_id, rsu_ids, k + 1, n, locs, radius, count)

\* The body of the loop over rsu_id: does it suppress rsu_id?
Suppressed(rsu_id, rsu_ids, locs, radius, count) ==
    /\ rsu_id \in DOMAIN locs
    /\ ScanOthers(rsu_id, rsu_ids, 1, 0, locs, radius, count)

\* df.loc[idxs, 'anomaly_filtered'] = False for the rows of (dt, rsu_id)
SuppressRows(frame, dt, rsu_id) ==
    [i \in 1..Len(frame) |->
        IF frame[i].datetime = dt /\ frame[i].rsu_id = rsu_id
        THEN [frame[i] EXCEPT !.anomaly_filtered = FALSE]
        ELSE frame[i]]

InitFilteredMutant(frame) ==
    [i \in 1..Len(frame) |-> WithColumn(frame[i], "anomaly_filtered", TRUE)]

\* df['anomaly_filtered'] = df['anomaly']
InitFiltered(frame) ==
    [i \in 1..Len(frame) |-> WithColumn(frame[i], "anomaly_filtered", frame[i].anomaly)]

\* One iteration of the loop over rsu_id inside the group dt.
FilterOne(frame, dt, rsu_id, locs, radius, count) ==
    IF Suppressed(rsu_id, GroupRsuIds(frame, dt), locs, radius, count)
    THEN SuppressRows(frame, dt, rsu_id)
    ELSE frame

RECURSIVE FilterRsus(_, _, _, _, _, _, _)
FilterRsus(frame, dt, rsu_ids, k, locs, radius, count) ==
    IF k > Len(rsu_ids) THEN frame
    ELSE FilterRsus(
            IF Suppressed(rsu_ids[k], rsu_ids, locs, radius, count)
            THEN SuppressRows(frame, dt, rsu_ids[k]) ELSE frame,
            dt, rsu_ids, k + 1, locs, radius, count)

RECURSIVE FilterGroups(_, _, _, _, _, _, _)
\* `grouped` was taken from the frame `orig` before the loops started.
FilterGroups(frame, orig, times, g, locs, radius, count) ==
    IF g > Len(times) THEN frame
    ELSE FilterGroups(
            FilterRsus(frame, times[g], GroupRsuIds(orig, times[g]), 1,
                       locs, radius, count),
            orig, times, g + 1, locs, radius, count)

\* The whole function, groups and rsus in the order the code visits them.
filter_spatial_anomalies(frame, locs, radius, count) ==
    LET start == InitFiltered(frame)
    IN  FilterGroups(start, start, SortedTimes(GroupTimes(start)), 1,
                     locs, radius, count)

(***************************************************************************)
(* build_segment_percentiles_with_season                                   *)
(***************************************************************************)
PercentScale == 100

RECURSIVE Range(_)
Range(s) == IF s = <<>> THEN {} ELSE {s[Len(s)]} \cup Range(SubSeq(s, 1, Len(s) - 1))

\* The values of metric m in the rows of the group b, in frame order.
GroupValues(frame, b, m) ==
    LET rows == SelectSeq(frame, LAMBDA r : Bucket(r.datetime) = b)
    IN  [i \in 1..Len(rows) |-> rows[i].val[m]]

QuantileMutant(values, pct) ==
    LET s    == SortSeq(values, LAMBDA a, b : a < b)
        pos  == (Len(s) - 1) * pct
        lo   == pos \div PercentScale
        frac == pos % PercentScale
    IN  IF frac = 0 THEN s[lo + 1] * PercentScale
        ELSE s[lo + 2] * PercentScale - (s[lo + 2] - s[lo + 1]) * frac

\* .quantile(percentile) of one group and one metric, linear interpolation:
\* the value at position (n - 1) * percentile of the sorted values, as
\* hundredths.
Quantile(values, pct) ==
    LET s    == SortSeq(values, LAMBDA a, b : a < b)
        pos  == (Len(s) - 1) * pct
        lo   == pos \div PercentScale
        frac == pos % PercentScale
    IN  IF frac = 0 THEN s[lo + 1] * PercentScale
        ELSE s[lo + 1] * PercentScale + (s[lo + 2] - s[lo + 1]) * frac

\* The stats frame: one row per bucket that has a historical row.
build_segment_percentiles_with_season(frame, ms, pct) ==
    [b \in {Bucket(frame[i].datetime) : i \in 1..Len(frame)} |->
        [m \in Range(ms) |-> Quantile(GroupValues(frame, b, m), pct)]]

(***************************************************************************)
(* detect_anomalies_by_time_segment                                        *)
(***************************************************************************)
\* row[metric] > perc_val
Exceeds(value, perc_val) == value * PercentScale > perc_val

RECURSIVE AnomalyCount(_, _, _, _)
\* The loop over metrics from position k on.
AnomalyCount(segment, row, ms, k) ==
    IF k > Len(ms) THEN 0
    ELSE (IF Exceeds(row.val[ms[k]], segment[ms[k]]) THEN 1 ELSE 0)
         + AnomalyCount(segment, row, ms, k + 1)

ReachesMutant(anomaly_count, min_m) == anomaly_count = min_m

\* anomaly_count >= min_metrics
Reaches(anomaly_count, min_m) == anomaly_count >= min_m

SegmentOfMutant(st, row) ==
    {b \in DOMAIN st : b[1] = row.hour /\ b[2] = row.weekday /\ b[4] = row.season}

\* stats[...] selected on the four bucket columns of the row
SegmentOf(st, row) ==
    {b \in DOMAIN st : b = <<row.hour, row.weekday, row.holiday, row.season>>}

\* check(row); the row carries its bucket columns.
check(st, row, ms, min_m) ==
    LET segment == SegmentOf(st, row) IN
    IF segment = {} THEN FALSE
    ELSE Reaches(AnomalyCount(st[CHOOSE b \in segment : TRUE], row, ms, 1), min_m)

\* Lines 59-62: the bucket columns of a row.
WithBucket(r) ==
    LET b == Bucket(r.datetime) IN
    [f \in DOMAIN r \cup {"hour", "weekday", "holiday", "season"} |->
        IF f = "hour" THEN b[1]
        ELSE IF f = "weekday" THEN b[2]
        ELSE IF f = "holiday" THEN b[3]
        ELSE IF f = "season" THEN b[4]
        ELSE r[f]]

\* The first metric of the list the frame has no column for, as a set.
MissingMetrics(ms, columns) == {m \in Range(ms) : m \notin columns}

\* df.apply(check, axis=1) on a frame with rows: does check raise KeyError?
\* It reads row[metric] only for a row whose segment is not empty.
ApplyRaises(st, frame, ms, columns) ==
    /\ MissingMetrics(ms, columns) # {}
    /\ \E i \in 1..Len(frame) : SegmentOf(st, frame[i]) # {}

\* The frame with the anomaly column.
ApplyCheck(st, frame, ms, min_m) ==
    [i \in 1..Len(frame) |->
        WithColumn(frame[i], "anomaly", check(st, frame[i], ms, min_m))]

\* The whole function on frames that have all their columns and rows.
detect_anomalies_by_time_segment(hist, current, ms, pct, min_m) ==
    ApplyCheck(build_segment_percentiles_with_season(hist, ms, pct),
               [i \in 1..Len(current) |-> WithBucket(current[i])], ms, min_m)

(***************************************************************************)
(* Inputs of the model.                                                    *)
(***************************************************************************)
MaxHist == 2
MaxCurrent == 1

\* 2024-01-09 08:00 and 2024-01-16 08:00 are Tuesdays of the same bucket;
\* 2024-01-02 08:00 differs from them in the holiday alone (new_year).
TA == Ts(2024, 1, 9, 8)
TB == Ts(2024, 1, 16, 8)
TN == Ts(2024, 1, 2, 8)

FilterTimes == {TA, TB}
HistTimes == {TA, TN}
CurrentTimes == {TB, TN}

\* Two places 222 m apart on a meridian.
Coords == {<<0, 0>>, <<2, 0>>}
Radii == {200, 222}
NeighbourCounts == 0..2

HistValues == {1, 3}
CurrentValues == {2, 3}
Percentiles == {50, 99, 100}
MinMetrics == {1, 2}

SeqsUpTo(S, n) == UNION {[1..k -> S] : k \in 0..n}

FilterRows == [rsu_id : Rsus, datetime : FilterTimes, anomaly : BOOLEAN]

\* rsu ids are names: a batch is taken with its rsus numbered in the order
\* in which they first appear.
FirstSeenOrder(frame) ==
    \A i \in 1..Len(frame) :
        frame[i].rsu_id \in {1} \cup {frame[j].rsu_id + 1 : j \in 1..(i - 1)}

LocationTables == UNION {[S -> Coords] : S \in SUBSET Rsus}

DetectMetrics == <<"speed", "flow">>
DetectColumns == {"datetime", "speed", "flow"}

HistRows == [datetime : HistTimes, val : [Range(DetectMetrics) -> HistValues]]
CurrentRows == [datetime : CurrentTimes, val : [Range(DetectMetrics) -> CurrentValues]]

NoDetect ==
    /\ df_hist = <<>> /\ hist_columns = {} /\ df_current = <<>>
    /\ current_columns = {} /\ metrics = <<>> /\ percentile = 0
    /\ min_metrics = 0

NoFilter ==
    /\ df_in = <<>> /\ rsu_locations = <<>> /\ radius_meters = 0
    /\ count_neighbours = 0

Fresh ==
    /\ stats = <<>> /\ df = <<>> /\ todo = {} /\ result = <<>>
    /\ error = "none" /\ classified = 0

(***************************************************************************)
(* detect_anomalies_by_time_segment, statement by statement.               *)
(***************************************************************************)
Raise(exception) ==
    /\ error' = exception
    /\ pc' = "error"

\* Lines 35-39: the bucket columns of the historical frame.
BuildClassify ==
    /\ pc = "build_classify"
    /\ IF "datetime" \notin hist_columns
       THEN Raise("KeyError") /\ UNCHANGED classified
       ELSE /\ classified' = classified + Len(df_hist)
            /\ pc' = "build_quantile"
            /\ UNCHANGED error
    /\ UNCHANGED <<inputVars, df_current, stats, df_in, df, rsu_locations, todo,
                   result>>

\* Lines 41-48: the quantile of every metric in every group.
BuildQuantile ==
    /\ pc = "build_quantile"
    /\ IF MissingMetrics(metrics, hist_columns) # {}
       THEN Raise("KeyError") /\ UNCHANGED stats
       ELSE /\ stats' = build_segment_percentiles_with_season(df_hist, metrics,
                                                               percentile)
            /\ pc' = "detect_classify"
            /\ UNCHANGED error
    /\ UNCHANGED <<inputVars, df_current, df_in, df, rsu_locations, todo, result,
                   classified>>

\* Lines 58-62: the copy and its bucket columns.
DetectClassify ==
    /\ pc = "detect_classify"
    /\ IF "datetime" \notin current_columns
       THEN Raise("KeyError") /\ UNCHANGED <<df, classified>>
       ELSE /\ df' = [i \in 1..Len(df_current) |-> WithBucket(df_current[i])]
            /\ classified' = classified + Len(df_current)
            /\ pc' = "detect_apply"
            /\ UNCHANGED error
    /\ UNCHANGED <<inputVars, df_current, stats, df_in, rsu_locations, todo,
                   result>>

\* Lines 81-82.  On a frame without rows, apply(check, axis=1) gives, with
\* the pandas version, a DataFrame, which the assignment to one column
\* rejects (ValueError), or an empty Series that is not boolean: the function
\* then returns, and df[df['anomaly']] at line 93 selects no column, so that
\* groupby('datetime') raises KeyError in the caller's next call.
DetectApply ==
    /\ pc = "detect_apply"
    /\ IF df = <<>>
       THEN \E rejected \in BOOLEAN :
              IF rejected THEN Raise("ValueError")
              ELSE IF mode = "run" THEN Raise("KeyError")
              ELSE pc' = "done" /\ UNCHANGED error
       ELSE IF ApplyRaises(stats, df, metrics, current_columns)
       THEN Raise("KeyError")
       ELSE /\ pc' = IF mode = "run" THEN "locations" ELSE "done"
            /\ UNCHANGED error
    /\ df' = IF df # <<>> /\ ~ApplyRaises(stats, df, metrics, current_columns)
             THEN ApplyCheck(stats, df, metrics, min_metrics)
             ELSE df
    /\ UNCHANGED <<inputVars, df_current, stats, df_in, rsu_locations, todo,
                   result, classified>>

InitDetect ==
    /\ pc = "build_classify"
    /\ mode = "detect"
    /\ df_hist \in SeqsUpTo(HistRows, MaxHist)
    /\ hist_columns = DetectColumns
    /\ df_current \in SeqsUpTo(CurrentRows, MaxCurrent)
    /\ current_columns = DetectColumns
    /\ metrics = DetectMetrics
    /\ percentile \in Percentiles
    /\ min_metrics \in MinMetrics
    /\ df_full = <<>>
    /\ NoFilter /\ Fresh

NextDetect == BuildClassify \/ BuildQuantile \/ DetectClassify \/ DetectApply

SpecDetect == InitDetect /\ [][NextDetect]_vars

\* The same call on frames that may lack one column.
OneColumnLess == {DetectColumns \ S : S \in {{}} \cup {{c} : c \in DetectColumns}}

InitValidate ==
    /\ pc = "build_classify"
    /\ mode = "detect"
    /\ df_hist \in SeqsUpTo(HistRows, 1)
    /\ hist_columns \in OneColumnLess
    /\ df_current \in SeqsUpTo(CurrentRows, 1)
    /\ current_columns \in OneColumnLess
    /\ metrics = DetectMetrics
    /\ percentile = 99
    /\ min_metrics = 2
    /\ df_full = <<>>
    /\ NoFilter /\ Fresh

SpecValidate == InitValidate /\ [][NextDetect]_vars

(***************************************************************************)
(* filter_spatial_anomalies, one (timestamp, rsu) of the loops at a time,  *)
(* the iterations taken in any order.                                      *)
(***************************************************************************)
\* Lines 90-93: the copy, the new column and the groups.
FilterBegin ==
    /\ pc = "filter"
    /\ df' = InitFiltered(df_in)
    /\ todo' = {<<df_in[i].datetime, df_in[i].rsu_id>> :
                    i \in {j \in 1..Len(df_in) : df_in[j].anomaly}}
    /\ pc' = "loop"
    /\ UNCHANGED <<inputVars, df_current, stats, df_in, rsu_locations, result,
                   error, classified>>

\* Lines 97-112 for one rsu_id of one group.
FilterStep ==
    /\ pc = "loop"
    /\ \E p \in todo :
          /\ df' = FilterOne(df, p[1], p[2], rsu_locations, radius_meters,
                             count_neighbours)
          /\ todo' = todo \ {p}
    /\ UNCHANGED <<pc, inputVars, df_current, stats, df_in, rsu_locations, result,
                   error, classified>>

\* Line 114.
FilterReturn ==
    /\ pc = "loop"
    /\ todo = {}
    /\ pc' = IF mode = "run" THEN "project" ELSE "done"
    /\ UNCHANGED <<inputVars, df_current, stats, df_in, df, rsu_locations, todo,
                   result, error, classified>>

InitFilter ==
    /\ pc = "filter"
    /\ mode = "filter"
    /\ df_in \in SeqsUpTo(FilterRows, MaxRows)
    /\ FirstSeenOrder(df_in)
    /\ rsu_locations \in LocationTables
    /\ radius_meters \in Radii
    /\ count_neighbours \in NeighbourCounts
    /\ df_full = <<>>
    /\ NoDetect /\ Fresh

NextFilter == FilterBegin \/ FilterStep \/ FilterReturn

SpecFilter == InitFilter /\ [][NextFilter]_vars

(***************************************************************************)
(* detect_anomalies_for_latest_timestamp                                   *)
(***************************************************************************)
\* df_full['datetime'].max(); NaT on a frame without rows.
MaxDatetime(frame) ==
    IF frame = <<>> THEN "NaT"
    ELSE CHOOSE t \in {frame[i].datetime : i \in 1..Len(frame)} :
            \A i \in 1..Len(frame) : TsKey(frame[i].datetime) <= TsKey(t)

\* df_full[df_full['datetime'] == max_datetime]
LatestSlice(frame) ==
    SelectSeq(frame, LAMBDA r : r.datetime = MaxDatetime(frame))

\* df_full[['rsu_id', 'latitude', 'longitude']].drop_duplicates(): the
\* distinct triples, each at the place of its first occurrence.
CoordsDf(frame) ==
    Unique([i \in 1..Len(frame) |->
                <<frame[i].rsu_id, frame[i].latitude, frame[i].longitude>>])

LocationOfMutant(coords_df, rsu_id) ==
    LET k == CHOOSE i \in 1..Len(coords_df) :
                /\ coords_df[i][1] = rsu_id
                /\ \A j \in 1..Len(coords_df) : coords_df[j][1] = rsu_id => j >= i
    IN  <<coords_df[k][2], coords_df[k][3]>>

\* The value the dict comprehension leaves under the key rsu_id: the one of
\* the last row of coords_df that has this key.
LocationOf(coords_df, rsu_id) ==
    LET k == CHOOSE i \in 1..Len(coords_df) :
                /\ coords_df[i][1] = rsu_id
                /\ \A j \in 1..Len(coords_df) : coords_df[j][1] = rsu_id => j <= i
    IN  <<coords_df[k][2], coords_df[k][3]>>

\* {row.rsu_id: (row.latitude, row.longitude) for row in coords_df.itertuples()}
RsuLocations(frame) ==
    LET coords_df == CoordsDf(frame) IN
    [r \in {coords_df[i][1] : i \in 1..Len(coords_df)} |-> LocationOf(coords_df, r)]

\* df_filtered[['rsu_id', 'datetime', 'anomaly_filtered']]
Project(frame) ==
    [i \in 1..Len(frame) |->
        [rsu_id |-> frame[i].rsu_id, datetime |-> frame[i].datetime,
         anomaly_filtered |-> frame[i].anomaly_filtered]]

\* Lines 125-126, and the call at line 128.
RunSlice ==
    /\ pc = "slice"
    /\ df_current' = LatestSlice(df_full)
    /\ pc' = "build_classify"
    /\ UNCHANGED <<inputVars, stats, df_in, df, rsu_locations, todo, result, error,
                   classified>>

\* Lines 136-137, and the call at line 139.
RunLocations ==
    /\ pc = "locations"
    /\ rsu_locations' = RsuLocations(df_full)
    /\ df_in' = df
    /\ pc' = "filter"
    /\ UNCHANGED <<inputVars, df_current, stats, df, todo, result, error,
                   classified>>

\* Line 141.
RunProject ==
    /\ pc = "project"
    /\ result' = Project(df)
    /\ pc' = "done"
    /\ UNCHANGED <<inputVars, df_current, stats, df_in, df, rsu_locations, todo,
                   error, classified>>

RunMetrics == <<"speed">>
RunHistColumns == {"rsu_id", "datetime", "speed"}
RunColumns == {"rsu_id", "datetime", "latitude", "longitude", "speed"}

\* No history, or one historical reading of speed 2 in the bucket of TA and TB.
RunHists == {<<>>, <<[datetime |-> TA, val |-> [speed |-> 2]]>>}

RunRows ==
    {[rsu_id |-> r, datetime |-> t, latitude |-> c[1], longitude |-> c[2],
      val |-> [speed |-> v]] :
        r \in Rsus, t \in FilterTimes, c \in Coords, v \in CurrentValues}

InitRun ==
    /\ pc = "slice"
    /\ mode = "run"
    /\ df_full \in SeqsUpTo(RunRows, MaxRows)
    /\ FirstSeenOrder(df_full)
    /\ df_hist \in RunHists
    /\ hist_columns = RunHistColumns
    /\ df_current = <<>>
    /\ current_columns = RunColumns
    /\ metrics = RunMetrics
    /\ percentile = 99
    /\ min_metrics = 1
    /\ radius_meters \in Radii
    /\ count_neighbours = 1
    /\ df_in = <<>>
    /\ rsu_locations = <<>>
    /\ Fresh

NextRun ==
    \/ RunSlice
    \/ BuildClassify
    \/ BuildQuantile
    \/ DetectClassify
    \/ DetectApply
    \/ RunLocations
    \/ FilterBegin
    \/ FilterStep
    \/ FilterReturn
    \/ RunProject

SpecRun == InitRun /\ [][NextRun]_vars

(***************************************************************************)
(* Properties of the spatial filter.                                       *)
(***************************************************************************)
\* The other rsus flagged at the timestamp of row i, known to the location
\* table and no farther than radius_meters from the rsu of row i.
CloseFlaggedOthers(i) ==
    {o \in Rsus \ {df_in[i].rsu_id} :
        /\ o \in DOMAIN rsu_locations
        /\ \E j \in 1..Len(df_in) :
              /\ df_in[j].rsu_id = o
              /\ df_in[j].datetime = df_in[i].datetime
              /\ df_in[j].anomaly
        /\ GeodesicSq(rsu_locations[df_in[i].rsu_id], rsu_locations[o])
              <= radius_meters * radius_meters}

\* C1: with count_neighbours >= 1, a flagged row of an rsu present in the
\* location table ends with anomaly_filtered = FALSE exactly when at least
\* count_neighbours other distinct rsus are flagged at the same timestamp,
\* present in the table and within radius_meters; otherwise it stays TRUE.
C1_SuppressedIffEnoughNeighbours ==
    (pc = "done" /\ count_neighbours >= 1) =>
        \A i \in 1..Len(df) :
            (df_in[i].anomaly /\ df_in[i].rsu_id \in DOMAIN rsu_locations) =>
                (df[i].anomaly_filtered = FALSE
                    <=> Cardinality(CloseFlaggedOthers(i)) >= count_neighbours)

\* Two located rsus flagged at one timestamp, one suppressed and one kept.
C1_Witness ==
    /\ pc = "done" /\ count_neighbours >= 1
    /\ \E i, j \in 1..Len(df) :
          /\ df[i].datetime = df[j].datetime
          /\ df[i].anomaly /\ df[j].anomaly
          /\ {df[i].rsu_id, df[j].rsu_id} \subseteq DOMAIN rsu_locations
          /\ ~df[i].anomaly_filtered /\ df[j].anomaly_filtered

\* C3: anomaly_filtered starts equal to anomaly, afterwards differs from it
\* only by being FALSE where anomaly is TRUE, and the anomaly column (like
\* every input column) is never changed.
C3_FilteredImpliesAnomaly ==
    (pc \in {"loop", "done"}) =>
        /\ Len(df) = Len(df_in)
        /\ \A i \in 1..Len(df) :
              /\ df[i].anomaly = df_in[i].anomaly
              /\ df[i].rsu_id = df_in[i].rsu_id
              /\ df[i].datetime = df_in[i].datetime
              /\ df[i].anomaly_filtered => df[i].anomaly
              /\ (todo = {<<df_in[k].datetime, df_in[k].rsu_id>> :
                             k \in {j \in 1..Len(df_in) : df_in[j].anomaly}})
                    => df[i].anomaly_filtered = df[i].anomaly

\* An unflagged row passed through and a flagged row suppressed.
C3_Witness ==
    /\ pc = "done"
    /\ \E i, j \in 1..Len(df) :
          /\ ~df[i].anomaly /\ ~df[i].anomaly_filtered
          /\ df[j].anomaly /\ ~df[j].anomaly_filtered

\* The rows of the rsus the location table knows.
KnownRows(frame) ==
    SelectSeq(frame, LAMBDA r : r.rsu_id \in DOMAIN rsu_locations)

\* C4: a flagged rsu absent from the location table keeps its pre-filter
\* flag, and is never counted as a neighbour: the rows of the known rsus end
\* as they do when the rows of the absent rsus are not in the frame at all.
C4_AbsentRsuExcluded ==
    (pc = "done") =>
        /\ \A i \in 1..Len(df) :
              df[i].rsu_id \notin DOMAIN rsu_locations
                  => df[i].anomaly_filtered = df_in[i].anomaly
        /\ KnownRows(df) = filter_spatial_anomalies(KnownRows(df_in),
                rsu_locations, radius_meters, count_neighbours)

\* A flagged absent rsu beside two located flagged rsus at one timestamp,
\* which one more neighbour would have suppressed.
C4_Witness ==
    /\ pc = "done" /\ count_neighbours = 2
    /\ \E i, j, k \in 1..Len(df) :
          /\ df[i].datetime = df[j].datetime /\ df[j].datetime = df[k].datetime
          /\ df[i].anomaly /\ df[j].anomaly /\ df[k].anomaly
          /\ df[i].rsu_id \notin DOMAIN rsu_locations
          /\ df[j].rsu_id # df[k].rsu_id
          /\ {df[j].rsu_id, df[k].rsu_id} \subseteq DOMAIN rsu_locations
          /\ WithinMetres(rsu_locations[df[j].rsu_id], rsu_locations[df[k].rsu_id],
                          radius_meters)
          /\ df[i].anomaly_filtered /\ df[j].anomaly_filtered

\* C10: whatever the order in which the (timestamp, rsu) pairs are
\* processed, the frame returned is the one the code's own order returns.
C10_OrderIndependent ==
    (pc = "done") =>
        df = filter_spatial_anomalies(df_in, rsu_locations, radius_meters,
                                      count_neighbours)

\* Two timestamp groups, a suppression in one and a kept flag in the other.
C10_Witness ==
    /\ pc = "done"
    /\ \E i, j \in 1..Len(df) :
          /\ df[i].datetime # df[j].datetime
          /\ df[i].anomaly /\ ~df[i].anomaly_filtered
          /\ df[j].anomaly /\ df[j].anomaly_filtered

(***************************************************************************)
(* Properties of the threshold detector.                                   *)
(***************************************************************************)
\* A historical row whose four bucket components all equal those of ts.
HasHistory(ts) ==
    \E j \in 1..Len(df_hist) :
        /\ df_hist[j].datetime.hour = ts.hour
        /\ Weekday(df_hist[j].datetime) = Weekday(ts)
        /\ get_russian_holiday(df_hist[j].datetime) = get_russian_holiday(ts)
        /\ get_season(df_hist[j].datetime) = get_season(ts)

\* The metrics of reading r strictly above the thresholds of its bucket.
MetricsAbove(r) ==
    {m \in Range(metrics) :
        r.val[m] * PercentScale > stats[Bucket(r.datetime)][m]}

\* C2: a reading whose exact bucket has no historical row is not flagged
\* (so none is when there is no history); any other reading is flagged
\* exactly when at least min_metrics of its metrics are strictly above the
\* thresholds of its bucket.
C2_FlaggedIffEnoughMetricsExceed ==
    (mode = "detect" /\ pc = "done") =>
        /\ Len(df) = Len(df_current)
        /\ \A i \in 1..Len(df) :
              df[i].anomaly =
                  IF HasHistory(df_current[i].datetime)
                  THEN Cardinality(MetricsAbove(df_current[i])) >= min_metrics
                  ELSE FALSE

\* A flagged reading with one metric above its threshold and the other
\* equal to its threshold.
C2_Witness ==
    /\ mode = "detect" /\ pc = "done" /\ min_metrics = 1
    /\ \E i \in 1..Len(df) :
          /\ df[i].anomaly
          /\ Cardinality(MetricsAbove(df_current[i])) = 1
          /\ \E m \in Range(metrics) :
                df_current[i].val[m] * PercentScale
                    = stats[Bucket(df_current[i].datetime)][m]

\* C7: every reading flagged with min_metrics + 1 is flagged with
\* min_metrics, the other arguments being the same.
C7_MonotonicInMinMetrics ==
    (mode = "detect" /\ pc = "done") =>
        LET stricter == detect_anomalies_by_time_segment(df_hist, df_current,
                            metrics, percentile, min_metrics + 1)
        IN  \A i \in 1..Len(df) : stricter[i].anomaly => df[i].anomaly

\* A reading flagged with min_metrics = 1 and no longer with 2.
C7_Witness ==
    /\ mode = "detect" /\ pc = "done" /\ min_metrics = 1
    /\ \E i \in 1..Len(df) :
          /\ df[i].anomaly
          /\ ~detect_anomalies_by_time_segment(df_hist, df_current, metrics,
                percentile, 2)[i].anomaly

\* C8: every reading flagged with a percentile q >= percentile is flagged
\* with percentile, and no threshold of the profile decreases from
\* percentile to q.
C8_MonotonicInPercentile ==
    (mode = "detect" /\ pc = "done") =>
        \A q \in {p \in Percentiles : p >= percentile} :
            LET higher == build_segment_percentiles_with_season(df_hist, metrics, q)
                flags  == ApplyCheck(higher, df, metrics, min_metrics)
            IN  /\ \A i \in 1..Len(df) : flags[i].anomaly => df[i].anomaly
                /\ \A b \in DOMAIN stats : \A m \in Range(metrics) :
                      higher[b][m] >= stats[b][m]

\* A reading flagged at the percentile 99, where its threshold lies between
\* two historical values, that the percentile 100 does not flag.
C8_Witness ==
    /\ mode = "detect" /\ pc = "done" /\ percentile = 99
    /\ \E i \in 1..Len(df) :
          /\ df[i].anomaly
          /\ ~detect_anomalies_by_time_segment(df_hist, df_current, metrics,
                100, min_metrics)[i].anomaly
          /\ \E m \in Range(metrics) :
                stats[Bucket(df_current[i].datetime)][m] % PercentScale # 0

\* C9: a frame that lacks the timestamp column or a metric column makes the
\* call end in an error, raised before any row has been given its bucket;
\* the call never returns.
C9_MissingColumnFailsFast ==
    (hist_columns # DetectColumns \/ current_columns # DetectColumns) =>
        /\ pc # "done"
        /\ pc = "error" => classified = 0

(***************************************************************************)
(* Properties of the orchestrator.                                         *)
(***************************************************************************)
\* The rows of the batch at its latest timestamp, in the order of the batch.
LatestRows ==
    {i \in 1..Len(df_full) :
        \A j \in 1..Len(df_full) :
            TsKey(df_full[j].datetime) <= TsKey(df_full[i].datetime)}

\* C5: the call does not fail, and returns one {rsu_id, datetime,
\* anomaly_filtered} entry for each row of the batch at its latest timestamp
\* and none for an earlier row: the empty sequence for the empty batch.
C5_LatestSliceReturned ==
    /\ pc # "error"
    /\ pc = "done" =>
          /\ Len(result) = Cardinality(LatestRows)
          /\ \A k \in 1..Len(result) :
                /\ DOMAIN result[k] = {"rsu_id", "datetime", "anomaly_filtered"}
                /\ \E i \in LatestRows :
                      /\ Cardinality({j \in LatestRows : j <= i}) = k
                      /\ result[k].rsu_id = df_full[i].rsu_id
                      /\ result[k].datetime = df_full[i].datetime

\* The rows of rsu r in the batch, and the first row that has the pair p.
RowsOf(r) == {i \in 1..Len(df_full) : df_full[i].rsu_id = r}
PairAt(i) == <<df_full[i].latitude, df_full[i].longitude>>
FirstRowWith(r, p) ==
    CHOOSE i \in RowsOf(r) :
        PairAt(i) = p /\ \A j \in RowsOf(r) : PairAt(j) = p => i <= j

\* C6 as stated: the location stored for an rsu is the pair of its first
\* row in the batch.
C6_FirstOccurrenceWins ==
    (pc \in {"filter", "loop", "project", "done"}) =>
        \A r \in DOMAIN rsu_locations :
            \A i \in RowsOf(r) :
                (\A j \in RowsOf(r) : i <= j) => rsu_locations[r] = PairAt(i)

\* C6 as amended: the location table has the rsus of the batch, and the
\* location stored for an rsu is, among its distinct pairs, the one whose
\* first row comes last in the batch.
C6_LastDistinctPairWins ==
    (pc \in {"filter", "loop", "project", "done"}) =>
        /\ DOMAIN rsu_locations = {df_full[i].rsu_id : i \in 1..Len(df_full)}
        /\ \A r \in DOMAIN rsu_locations :
              \E i \in RowsOf(r) :
                  /\ rsu_locations[r] = PairAt(i)
                  /\ \A j \in RowsOf(r) :
                        FirstRowWith(r, PairAt(j)) <= FirstRowWith(r, PairAt(i))

\* An rsu with the pairs A, B, A in this order: B is stored, which is the
\* pair neither of its first row nor of its last row.
C6_Witness ==
    /\ pc = "done"
    /\ \E r \in DOMAIN rsu_locations :
          \E i, j, k \in RowsOf(r) :
              /\ i < j /\ j < k
              /\ PairAt(i) = PairAt(k) /\ PairAt(i) # PairAt(j)
              /\ rsu_locations[r] = PairAt(j)

====
